---- MODULE Spec2Model ----
(***************************************************************************)
(* Model of the isoautomate-go SDK: two client implementations that share   *)
(* one broker store (Redis) with a pool of remote workers.                  *)
(*   Client        (client.go, transport.go, unnamed/part_001): acquisition *)
(*                 by one Lua script, RPUSH + BLPOP transport with          *)
(*                 executeWithRetry.                                        *)
(*   BrowserClient (unnamed/part_002, utils.go): acquisition by SMEMBERS,   *)
(*                 SPOP, SADD as separate store calls, RPUSH + polling GET. *)
(* Every store call is one step; the client-local code between two store    *)
(* calls belongs to the step of the store call that precedes it.            *)
(***************************************************************************)
EXTENDS Integers, Sequences, FiniteSets, TLC

\* ---------------------------------------------------------------- bounds
MaxCalls == 3      \* API calls (Acquire, Send, Release) started in one run
MaxFaults == 1     \* store calls of the clients that fail or time out in one
                   \* run (a call retried by executeWithRetry counts once)
Timeout == 2       \* the timeout of a Send, in units of 50 ms

\* ------------------------------------------------------- program constants
maxAttempts == 3   \* executeWithRetry: retries after the first attempt
backoffFactor == 4 \* executeWithRetry: 0.2 s, in units of 50 ms
pollInterval == 1  \* BrowserClient.Send: time.Sleep(50 * time.Millisecond)

\* ------------------------------------------------------------ the universe
LClients == {"c1", "c2"}          \* instances of Client
BClients == {"d1", "d2"}          \* instances of BrowserClient
Clients == LClients \cup BClients
Workers == {"w1", "w2"}
Types == {"chrome", "firefox"}
Instances == {"b1", "b2", "b3"}
\* the (worker, browser type) pair whose free or busy set holds an instance
Home(b) == CASE b = "b1" -> <<"w1", "chrome">>
             [] b = "b2" -> <<"w2", "chrome">>
             [] OTHER    -> <<"w1", "firefox">>
Pairs == Workers \X Types
HomeSet(p) == {b \in Instances : Home(b) = p}
\* the arguments of the Acquire calls: browser type and init flags
Request(t, video, profile, record) ==
    [BrowserID |-> "", WorkerName |-> "", BrowserType |-> t,
     Video |-> video, Record |-> record, ProfileID |-> profile]
Requests == {Request("chrome", FALSE, "", FALSE),
             Request("firefox", FALSE, "", FALSE),
             Request("chrome", TRUE, "p1", FALSE)}
\* BrowserClient.Acquire takes the browser type and record only
BRequests == {Request("chrome", FALSE, "", FALSE),
              Request("firefox", FALSE, "", FALSE),
              Request("chrome", FALSE, "", TRUE)}
\* what a worker may write to a result key: two well-formed results and one
\* value that is no JSON object
Responses == {"ok", "fail", "garbage"}
\* the values a result key may hold: these, the JSON text null, a result
\* that carries a video_url and a record_url, and the result of an assertion
\* that does not hold
Values == Responses \cup {"null", "media", "assert_fail"}

VARIABLES
    pool,      \* members of the set ISOAUTOMATE:workers
    free,      \* free[<<w, t>>]: members of ISOAUTOMATE:<w>:<t>:free
    busy,      \* busy[<<w, t>>]: members of ISOAUTOMATE:<w>:<t>:busy
    queue,     \* queue[w]: the list ISOAUTOMATE:<w>:tasks
    results,   \* pairs <<result key, value>> written by workers, not yet read
    cl,        \* cl[c]: the fields of client c and the position of its call
    claimed,   \* history: claimed[b] = clients Acquire bound b to since a
               \* worker last returned b to free
    calls,     \* history: API calls started
    faults,    \* history: store calls that failed or timed out
    watch      \* watch[c]: the time client c has spent in its call (followed
               \* in the timed specification only)

vars == <<pool, free, busy, queue, results, cl, claimed, calls, faults, watch>>

\* ------------------------------------------------------------------ types.go
NoSession == [BrowserID |-> "", WorkerName |-> "", BrowserType |-> "",
              Video |-> FALSE, Record |-> FALSE, ProfileID |-> ""]

\* A JSON text: an object is the sequence of its members <<key, value>>
\* (the values used here are strings), null, or a text that is no JSON.
Object(members) == [kind |-> "object", members |-> members]
JSONNull == [kind |-> "null", members |-> <<>>]
NotJSON == [kind |-> "invalid", members |-> <<>>]

\* A Go map[string]interface{}: nil, or the set of its <<key, value>> pairs
GoMap(m) == [nil |-> FALSE, m |-> m]
NilMap == [nil |-> TRUE, m |-> {}]

\* the args the callers of Send pass
SendArgs == {NilMap, GoMap({}), GoMap({<<"selector", "#a">>, <<"text", "hi">>})}

\* json.Marshal of a map[string]interface{}: null for a nil map, otherwise an
\* object with one member for each key
Marshal(args) ==
    IF args.nil THEN JSONNull
    ELSE Object(CHOOSE q \in [1..Cardinality(args.m) -> args.m] :
                  \A i, j \in 1..Cardinality(args.m) : q[i] = q[j] => i = j)

NoTask == [TaskID |-> <<"", 0>>, BrowserID |-> "", WorkerName |-> "",
           Action |-> "", Args |-> JSONNull, ResultKey |-> <<"", <<"", 0>>>>,
           Video |-> FALSE, Record |-> FALSE, ProfileID |-> "",
           BrowserType |-> ""]

\* (mutant: the result key is derived from the client, not from the task)
ResultKeyPerClient(tid) == <<"result", <<tid[1], 0>>>>

\* fmt.Sprintf("%sresult:%s", RedisPrefix, taskID)
ResultKey(tid) == <<"result", tid>>

\* the outcome of a call: err is "" for a nil error
Ok(v) == [err |-> "", val |-> v]
Err(e) == [err |-> e, val |-> ""]

NoOp == [name |-> "", type |-> ""]

InitClient(c) ==
    [id |-> c, Session |-> NoSession, InitSent |-> FALSE, SessionData |-> "",
     pc |-> "idle", cont |-> "", task |-> NoTask, attempt |-> 0,
     scan |-> <<>>, bid |-> "", record |-> FALSE, nTasks |-> 0,
     op |-> NoOp, ret |-> Ok(""), lastErr |-> "", scanFault |-> FALSE,
     flagged |-> 0, VideoURL |-> "", RecordURL |-> ""]

\* elapsed: time since the call started; since: elapsed when the wait for
\* the result started; appendFails: RPUSH attempts of the call that failed
NoWatch == [elapsed |-> 0, since |-> 0, appendFails |-> 0]

Init ==
    /\ watch = [c \in Clients |-> NoWatch]
    /\ pool \in SUBSET Workers
    /\ free = [p \in Pairs |-> HomeSet(p)]
    /\ busy = [p \in Pairs |-> {}]
    /\ queue = [w \in Workers |-> <<>>]
    /\ results = {}
    /\ cl = [c \in Clients |-> InitClient(c)]
    /\ claimed = [b \in Instances |-> {}]
    /\ calls = 0
    /\ faults = 0

\* ------------------------------------------------------- the worker scan
Swap(s, i, j) == [s EXCEPT ![i] = s[j], ![j] = s[i]]

\* for i = #workers, 2, -1 do j = math.random(i); swap(i, j) end
\* (rand.Shuffle of BrowserClient.Acquire runs the same loop); js[i] is the
\* number drawn at index i
RECURSIVE Shuffle(_, _, _)
Shuffle(ws, i, js) ==
    IF i < 2 THEN ws ELSE Shuffle(Swap(ws, i, js[i]), i - 1, js)

Draws(n) == {js \in [1..n -> 1..n] : \A i \in 1..n : js[i] <= i}

\* SMEMBERS: the members of a set in some order
SMembers(S) ==
    {m \in [1..Cardinality(S) -> S] : \A i, j \in 1..Cardinality(S) : m[i] = m[j] => i = j}

Orders(S) == {Shuffle(m, Len(m), js) : m \in SMembers(S), js \in Draws(Cardinality(S))}

\* ------------------------------------------------------- store primitives
SPop(S, b) == S \ {b}
SAdd(S, b) == S \cup {b}

\* ---------------------------------------------- transport.go: the retry loop
\* (mutant: one retry only)
RetryDecisionOnce(err, attempt) ==
    IF err = "" THEN "return"
    ELSE IF err # "nil" /\ attempt < 1 THEN "retry"
    ELSE "return"

\* (mutant: the loop compares with <=, one retry too many)
RetryDecisionOneMore(err, attempt) ==
    IF err = "" THEN "return"
    ELSE IF err # "nil" /\ attempt <= maxAttempts THEN "retry"
    ELSE "return"

\* (mutant: redis.Nil is retried like any other error)
RetryDecisionNilRetried(err, attempt) ==
    IF err = "" THEN "return"
    ELSE IF attempt < maxAttempts THEN "retry"
    ELSE "return"

\* One pass of the loop of executeWithRetry on the outcome of op():
\* "" (nil), "nil" (redis.Nil) or any other error ("Redis": the store call
\* failed; "Deadline": the context of the BLPOP expired).
RetryDecision(err, attempt) ==
    IF err = "" THEN "return"
    ELSE IF err # "nil" /\ attempt < maxAttempts THEN "retry"
    ELSE "return"

\* The attempt at which executeWithRetry returns when op() keeps failing
\* with err from the given attempt on.
RECURSIVE LastAttempt(_, _)
LastAttempt(err, attempt) ==
    IF RetryDecision(err, attempt) = "retry"
    THEN LastAttempt(err, attempt + 1) ELSE attempt

\* the error SendWithTimeout makes of the error the BLPOP wrapper returned
BLPopError(err) == IF err \in {"nil", "Deadline"} THEN "Timeout" ELSE "RPC"

\* the texts the workers write to a result key, named by Responses
Body(raw) ==
    CASE raw = "ok" -> Object(<< <<"status", "ok">>, <<"value", "Example">> >>)
      [] raw = "fail" -> Object(<< <<"status", "error">>, <<"error", "boom">> >>)
      [] raw = "null" -> JSONNull
      [] raw = "assert_fail" -> Object(<< <<"status", "fail">>, <<"error", "no match">> >>)
      [] raw = "media" -> Object(<< <<"status", "ok">>, <<"video_url", "v.mp4">>,
                                    <<"record_url", "r.json">> >>)
      [] OTHER -> NotJSON

\* (mutant: the text is decoded into the TaskResponse struct of types.go,
\* which keeps the fields it declares)
DecodeAsTaskResponse(text) ==
    IF text.kind = "object"
    THEN [err |-> "",
          map |-> GoMap({text.members[i] : i \in
                   {j \in 1..Len(text.members) :
                      /\ text.members[j][1] \in {"status", "error", "video_url",
                              "record_url", "screenshot_base64", "data"}
                      /\ \A k \in (j + 1)..Len(text.members) :
                            text.members[k][1] # text.members[j][1]}})]
    ELSE IF text.kind = "null" THEN [err |-> "", map |-> NilMap]
    ELSE [err |-> "Parse", map |-> NilMap]

\* json.Unmarshal of a text into a map[string]interface{}: every member of
\* an object becomes a pair of the map, a later member replacing an earlier
\* one with the same key; null leaves the map nil; anything else is an error
Decode(text) ==
    IF text.kind = "object"
    THEN [err |-> "",
          map |-> GoMap({text.members[i] : i \in
                   {j \in 1..Len(text.members) :
                      \A k \in (j + 1)..Len(text.members) :
                        text.members[k][1] # text.members[j][1]}})]
    ELSE IF text.kind = "null" THEN [err |-> "", map |-> NilMap]
    ELSE [err |-> "Parse", map |-> NilMap]

\* json.Unmarshal of a result value into map[string]interface{}; the value
\* of the outcome names the text whose Decode is the map returned
Unmarshal(raw) == IF Decode(Body(raw)).err = "" THEN Ok(raw) ELSE Err("Parse")

\* the map a Send returned: res of res, err := c.Send(...)
ResultMap(r) == IF r.err = "" THEN Decode(Body(r.val)).map ELSE NilMap

\* v, ok := res[key].(string)
StringAt(map, key) ==
    IF \E q \in map.m : q[1] = key
    THEN [ok |-> TRUE, val |-> (CHOOSE q \in map.m : q[1] = key)[2]]
    ELSE [ok |-> FALSE, val |-> ""]

\* (mutant: the video URL is read from the record_url key)
VideoURLFromRecordKey(s, r) ==
    LET u == StringAt(ResultMap(r), "record_url") IN
    IF u.ok THEN [s EXCEPT !.VideoURL = u.val] ELSE s

\* Release after the stop_video / stop_recording Send returned r:
\* if url, ok := res["video_url"].(string); ok { c.VideoURL = url }
VideoURLAfter(s, r) ==
    LET u == StringAt(ResultMap(r), "video_url") IN
    IF u.ok THEN [s EXCEPT !.VideoURL = u.val] ELSE s

\* Client.Release after the stop_record Send returned r
RecordURLAfter(s, r) ==
    LET u == StringAt(ResultMap(r), "record_url") IN
    IF u.ok THEN [s EXCEPT !.RecordURL = u.val] ELSE s

\* status == "fail" for the map a Send returned
StatusFail(r) ==
    LET u == StringAt(ResultMap(r), "status") IN u.ok /\ u.val = "fail"

\* Client.handleAssertion after its Send returned r: the error of the Send,
\* or the response with an "Assertion Failed" error when its status is
\* "fail", or the response
AfterAssertion(r) ==
    IF r.err # "" THEN r
    ELSE IF StatusFail(r) THEN [err |-> "AssertionFailed", val |-> r.val]
    ELSE r

\* BrowserClient.handleAssertion after res, _ := c.Send(...) returned r: the
\* error of the Send is dropped; an error (the response's error text, or
\* "assertion failed") when the status is "fail", nil otherwise
BAfterAssertion(r) == IF StatusFail(r) THEN Err("AssertionFailed") ELSE Ok("")

\* Client.handleAssertion: args["screenshot"] = true when the key is absent
WithScreenshot(args) ==
    IF \E q \in args.m : q[1] = "screenshot" THEN args
    ELSE GoMap(args.m \cup {<<"screenshot", "true">>})

\* BrowserClient.handleAssertion: args["screenshot"] = true
BWithScreenshot(args) ==
    GoMap({q \in args.m : q[1] # "screenshot"} \cup {<<"screenshot", "true">>})

\* ------------------------------------------- Client: Send and its callers
\* The task SendWithTimeout builds: the init flags go on the payload only
\* while InitSent is false.
TaskPayload(s, action, args) ==
    LET tid == <<s.id, s.nTasks + 1>> IN
    [TaskID |-> tid, BrowserID |-> s.Session.BrowserID,
     WorkerName |-> s.Session.WorkerName, Action |-> action,
     Args |-> Marshal(args),
     ResultKey |-> ResultKey(tid),
     Video |-> ~s.InitSent /\ s.Session.Video,
     Record |-> ~s.InitSent /\ s.Session.Record,
     ProfileID |-> IF ~s.InitSent THEN s.Session.ProfileID ELSE "",
     BrowserType |-> IF ~s.InitSent /\ s.Session.ProfileID # ""
                     THEN s.Session.BrowserType ELSE ""]

\* the task carries a session-establishment flag
HasFlags(task) == task.Video \/ task.Record \/ task.ProfileID # ""

\* (mutant: the Session check of Send is missing)
SessionNeverMissing(s) == FALSE

\* SendWithTimeout returns nil, error on a nil Session
SessionMissing(s) == s.Session = NoSession

RECURSIVE SendStart(_, _, _, _), SendReturn(_, _)

\* SendWithTimeout up to its first store call (the RPUSH); cont names the
\* code the result returns to
\* (flagged: history, the tasks built for the current Session that carry init
\* flags, counted up to 2)
SendStart(s, action, args, cont) ==
    IF SessionMissing(s)
    THEN SendReturn([s EXCEPT !.cont = cont], Err("NotAcquired"))
    ELSE [s EXCEPT !.task = TaskPayload(s, action, args), !.nTasks = @ + 1,
                   !.pc = "rpush", !.attempt = 0, !.cont = cont,
                   !.flagged = IF HasFlags(TaskPayload(s, action, args)) /\ @ < 2
                               THEN @ + 1 ELSE @]

\* (mutant: Release clears the Session only when release_browser succeeded)
ReleaseDoneOnSuccess(s, r) ==
    [s EXCEPT !.Session = IF r.err = "" THEN NoSession ELSE @, !.pc = "idle",
              !.cont = "", !.task = NoTask, !.attempt = 0, !.ret = r,
              !.flagged = IF r.err = "" THEN 0 ELSE @]

\* the deferred c.Session = nil of Release
ReleaseDone(s, r) ==
    [s EXCEPT !.Session = NoSession, !.pc = "idle", !.cont = "",
              !.task = NoTask, !.attempt = 0, !.ret = r, !.flagged = 0]

\* the code that runs when a Send started at cont returns r
SendReturn(s, r) ==
    CASE s.cont = "user" ->
           [s EXCEPT !.pc = "idle", !.cont = "", !.task = NoTask, !.attempt = 0,
                     !.ret = r]
      [] s.cont = "assert" ->
           [s EXCEPT !.pc = "idle", !.cont = "", !.task = NoTask, !.attempt = 0,
                     !.ret = AfterAssertion(r)]
      [] s.cont = "acquire" ->       \* _, _ = c.Send("get_title", nil)
           [s EXCEPT !.pc = "idle", !.cont = "", !.task = NoTask, !.attempt = 0,
                     !.ret = Ok("acquired")]
      [] s.cont = "stop_video" ->
           IF s.Session.Record
           THEN SendStart(VideoURLAfter(s, r), "stop_record", NilMap, "stop_record")
           ELSE SendStart(VideoURLAfter(s, r), "release_browser", NilMap,
                          "release_browser")
      [] s.cont = "stop_record" ->
           SendStart(RecordURLAfter(s, r), "release_browser", NilMap,
                     "release_browser")
      [] OTHER ->                    \* release_browser
           IF r.err # "" THEN ReleaseDone(s, r)
           ELSE ReleaseDone([s EXCEPT !.SessionData = r.val], r)

\* a new API call starts on an idle client
\* (lastErr: what the last store attempt of the call returned; scanFault: a
\* store call of the call's worker scan failed)
Enter(s, name, t) ==
    [s EXCEPT !.op = [name |-> name, type |-> t], !.ret = Ok(""),
              !.lastErr = "", !.scanFault = FALSE]

\* (a client whose Close has returned makes no further call)
CanCall(c) == cl[c].pc = "idle" /\ calls < MaxCalls /\ cl[c].op.name # "Close"
CanFail == faults < MaxFaults
\* a failed attempt inside executeWithRetry: the first one of a call is counted
CanFailAt(attempt) == attempt > 0 \/ CanFail
FaultsAt(attempt) == IF attempt > 0 THEN faults ELSE faults + 1

\* (mutants: the script reads a member without popping it; the script does
\* not add the popped member to busy)
LuaFreeNotPopped(t, w, b) == free
LuaBusyNotAdded(t, w, b) == busy

\* (mutant: the script also returns the busy members of the other sets to
\* their free sets)
LuaFreeReclaims(t, w, b) ==
    [p \in Pairs |-> IF p = <<w, t>> THEN SPop(free[p], b)
                     ELSE free[p] \cup busy[p]]

\* the Lua script's effect on the pool: SPOP from free, SADD to busy
LuaFree(t, w, b) == [free EXCEPT ![<<w, t>>] = SPop(@, b)]
LuaBusy(t, w, b) == [busy EXCEPT ![<<w, t>>] = SAdd(@, b)]

\* (mutant: the scan stops after the first worker of the list)
FirstFreeHeadOnly(ws, t) ==
    IF ws = <<>> THEN ""
    ELSE IF free[<<Head(ws), t>>] # {} THEN Head(ws)
    ELSE ""

\* the worker the script takes from: the first of the shuffled list whose
\* SPOP yields a value
RECURSIVE FirstFree(_, _)
FirstFree(ws, t) ==
    IF ws = <<>> THEN ""
    ELSE IF free[<<Head(ws), t>>] # {} THEN Head(ws)
    ELSE FirstFree(Tail(ws), t)

\* Client.Acquire after a script result [worker, bid]
\* (mutant: the warm-up command is sent for every Session)
AcquiredAlwaysWarms(s, t, w, b, video, profile, record) ==
    SendStart([s EXCEPT !.Session = [BrowserID |-> b, WorkerName |-> w,
                                     BrowserType |-> t, Video |-> video,
                                     Record |-> record, ProfileID |-> profile],
                        !.flagged = 0],
              "get_title", NilMap, "acquire")

Acquired(s, t, w, b, video, profile, record) ==
    LET s1 == [s EXCEPT !.Session = [BrowserID |-> b, WorkerName |-> w,
                                     BrowserType |-> t, Video |-> video,
                                     Record |-> record, ProfileID |-> profile],
                        !.flagged = 0]
    IN IF profile # "" \/ video \/ record
       THEN SendStart(s1, "get_title", NilMap, "acquire")
       ELSE [s1 EXCEPT !.ret = Ok("acquired")]

\* (mutant: Acquire leaves InitSent as the earlier session left it)
AcquireKeepsInitSent(c, t, video, profile, record) ==
    /\ c \in LClients
    /\ CanCall(c)
    /\ calls' = calls + 1
    /\ LET s == Enter(cl[c], "Acquire", t) IN
       \/ /\ CanFail                 \* cmd.Result() returns an error
          /\ faults' = faults + 1
          /\ cl' = [cl EXCEPT ![c] = [s EXCEPT !.ret = Err("Lua"), !.scanFault = TRUE]]
          /\ UNCHANGED <<pool, free, busy, queue, results, claimed>>
       \/ \E order \in Orders(pool) :
            LET w == FirstFree(order, t) IN
            IF w = ""
            THEN /\ cl' = [cl EXCEPT ![c] = [s EXCEPT !.ret = Err("NoBrowser")]]
                 /\ UNCHANGED <<pool, free, busy, queue, results, claimed, faults>>
            ELSE \E b \in free[<<w, t>>] :
                 /\ free' = LuaFree(t, w, b)
                 /\ busy' = LuaBusy(t, w, b)
                 /\ claimed' = [claimed EXCEPT ![b] = @ \cup {c}]
                 /\ cl' = [cl EXCEPT ![c] =
                       Acquired(s, t, w, b, video, profile, record)]
                 /\ UNCHANGED <<pool, queue, results, faults>>

Acquire(c, t, video, profile, record) ==
    /\ c \in LClients
    /\ CanCall(c)
    /\ calls' = calls + 1
    /\ LET s == [Enter(cl[c], "Acquire", t) EXCEPT !.InitSent = FALSE] IN
       \/ /\ CanFail                 \* cmd.Result() returns an error
          /\ faults' = faults + 1
          /\ cl' = [cl EXCEPT ![c] = [s EXCEPT !.ret = Err("Lua"), !.scanFault = TRUE]]
          /\ UNCHANGED <<pool, free, busy, queue, results, claimed>>
       \/ \E order \in Orders(pool) :
            LET w == FirstFree(order, t) IN
            IF w = ""
            THEN /\ cl' = [cl EXCEPT ![c] = [s EXCEPT !.ret = Err("NoBrowser")]]
                 /\ UNCHANGED <<pool, free, busy, queue, results, claimed, faults>>
            ELSE \E b \in free[<<w, t>>] :
                 /\ free' = LuaFree(t, w, b)
                 /\ busy' = LuaBusy(t, w, b)
                 /\ claimed' = [claimed EXCEPT ![b] = @ \cup {c}]
                 /\ cl' = [cl EXCEPT ![c] =
                       Acquired(s, t, w, b, video, profile, record)]
                 /\ UNCHANGED <<pool, queue, results, faults>>

Send(c, action, args) ==
    /\ c \in LClients
    /\ CanCall(c)
    /\ calls' = calls + 1
    /\ cl' = [cl EXCEPT ![c] = SendStart(Enter(cl[c], "Send", ""), action, args, "user")]
    /\ UNCHANGED <<pool, free, busy, queue, results, claimed, faults>>

\* an assertion method of Client (AssertText, AssertElement, ...)
handleAssertion(c, action, args) ==
    /\ c \in LClients
    /\ CanCall(c)
    /\ calls' = calls + 1
    /\ cl' = [cl EXCEPT ![c] =
             SendStart(Enter(cl[c], "Assert", ""), action, WithScreenshot(args),
                       "assert")]
    /\ UNCHANGED <<pool, free, busy, queue, results, claimed, faults>>

\* (mutant: Release sends release_browser without the stop commands)
ReleaseWithoutStop(c) ==
    /\ c \in LClients
    /\ CanCall(c)
    /\ calls' = calls + 1
    /\ LET s == Enter(cl[c], "Release", "") IN
       cl' = [cl EXCEPT ![c] =
                IF SessionMissing(s) THEN [s EXCEPT !.ret = Ok("not_acquired")]
                ELSE SendStart(s, "release_browser", NilMap, "release_browser")]
    /\ UNCHANGED <<pool, free, busy, queue, results, claimed, faults>>

Release(c) ==
    /\ c \in LClients
    /\ CanCall(c)
    /\ calls' = calls + 1
    /\ LET s == Enter(cl[c], "Release", "") IN
       cl' = [cl EXCEPT ![c] =
                IF SessionMissing(s) THEN [s EXCEPT !.ret = Ok("not_acquired")]
                ELSE IF s.Session.Video THEN SendStart(s, "stop_video", NilMap, "stop_video")
                ELSE IF s.Session.Record THEN SendStart(s, "stop_record", NilMap, "stop_record")
                ELSE SendStart(s, "release_browser", NilMap, "release_browser")]
    /\ UNCHANGED <<pool, free, busy, queue, results, claimed, faults>>

\* (mutant: the result of the RPUSH is not read, as in BrowserClient.Send)
AfterRPushIgnoresError(s, err) ==
    [s EXCEPT !.pc = "blpop", !.attempt = 0, !.lastErr = err]

\* (mutant: a Send whose RPUSH fails gives up the Session)
AfterRPushRollsBack(s, err) ==
    IF err # "" THEN SendReturn([s EXCEPT !.lastErr = err, !.Session = NoSession], Err(err))
    ELSE [s EXCEPT !.pc = "blpop", !.attempt = 0, !.lastErr = ""]

\* what SendWithTimeout does with the result of the RPUSH wrapper: the
\* error is returned as it is, otherwise the BLPOP wrapper starts
AfterRPush(s, err) ==
    IF err # "" THEN SendReturn([s EXCEPT !.lastErr = err], Err(err))
    ELSE [s EXCEPT !.pc = "blpop", !.attempt = 0, !.lastErr = ""]

\* One attempt of the RPUSH inside executeWithRetry: the store appends and
\* answers, or the call fails before it reaches the store.
RPush(c) ==
    /\ c \in LClients
    /\ cl[c].pc = "rpush"
    /\ LET s == cl[c] IN
       \/ /\ queue' = [queue EXCEPT ![s.task.WorkerName] = Append(@, s.task)]
          /\ cl' = [cl EXCEPT ![c] = AfterRPush(s, "")]
          /\ UNCHANGED faults
       \/ /\ CanFailAt(s.attempt)
          /\ faults' = FaultsAt(s.attempt)
          /\ cl' = [cl EXCEPT ![c] =
                IF RetryDecision("Redis", s.attempt) = "retry"
                THEN [s EXCEPT !.attempt = @ + 1, !.lastErr = "Redis"]
                ELSE AfterRPush(s, "Redis")]
          /\ UNCHANGED queue
    /\ UNCHANGED <<pool, free, busy, results, claimed, calls>>

\* One attempt of the RPUSH that reaches the store, which appends, while the
\* answer is lost on the way back: op() returns an error after the append.
RPushAnswerLost(c) ==
    /\ c \in LClients
    /\ cl[c].pc = "rpush"
    /\ LET s == cl[c] IN
       /\ CanFailAt(s.attempt)
       /\ faults' = FaultsAt(s.attempt)
       /\ queue' = [queue EXCEPT ![s.task.WorkerName] = Append(@, s.task)]
       /\ cl' = [cl EXCEPT ![c] =
             IF RetryDecision("Redis", s.attempt) = "retry"
             THEN [s EXCEPT !.attempt = @ + 1, !.lastErr = "Redis"]
             ELSE AfterRPush(s, "Redis")]
    /\ UNCHANGED <<pool, free, busy, results, claimed, calls>>

\* (mutant: a Send that fails drops the Session)
AfterBLPopDropsSession(s, err, raw) ==
    IF err # "" THEN SendReturn([s EXCEPT !.Session = NoSession], Err(BLPopError(err)))
    ELSE IF Unmarshal(raw).err # "" THEN SendReturn(s, Unmarshal(raw))
    ELSE SendReturn([s EXCEPT !.InitSent = TRUE], Unmarshal(raw))

\* (mutant: a BLPOP that reports redis.Nil is issued again)
AfterBLPopWaitsOn(s, err, raw) ==
    IF err = "nil" THEN [s EXCEPT !.attempt = 0]
    ELSE IF err # "" THEN SendReturn(s, Err(BLPopError(err)))
    ELSE IF Unmarshal(raw).err # "" THEN SendReturn(s, Unmarshal(raw))
    ELSE SendReturn([s EXCEPT !.InitSent = TRUE], Unmarshal(raw))

\* what SendWithTimeout does with the result of the BLPOP wrapper
AfterBLPop(s, err, raw) ==
    IF err # "" THEN SendReturn(s, Err(BLPopError(err)))
    ELSE IF Unmarshal(raw).err # "" THEN SendReturn(s, Unmarshal(raw))
    ELSE SendReturn([s EXCEPT !.InitSent = TRUE], Unmarshal(raw))

\* One attempt of the BLPOP inside executeWithRetry. The BLPOP runs under a
\* context that expires after the timeout: once it has expired every further
\* attempt fails with context.DeadlineExceeded at once, so the rest of the
\* loop is one step.
BLPop(c) ==
    /\ c \in LClients
    /\ cl[c].pc = "blpop"
    /\ LET s == cl[c]
           vals == {v \in Values : <<s.task.ResultKey, v>> \in results} IN
       \/ \E v \in vals :             \* a value was pushed to the key
            /\ results' = results \ {<<s.task.ResultKey, v>>}
            /\ cl' = [cl EXCEPT ![c] = AfterBLPop([s EXCEPT !.lastErr = ""], "", v)]
            /\ UNCHANGED faults
       \/ /\ vals = {}                \* the timeout passes: redis.Nil
          /\ CanFailAt(s.attempt)
          /\ faults' = FaultsAt(s.attempt)
          /\ cl' = [cl EXCEPT ![c] =
                IF RetryDecision("nil", s.attempt) = "retry"
                THEN [s EXCEPT !.attempt = @ + 1, !.lastErr = "nil"]
                ELSE AfterBLPop([s EXCEPT !.lastErr = "nil"], "nil", "")]
          /\ UNCHANGED results
       \/ /\ CanFailAt(s.attempt)     \* the store call fails
          /\ faults' = FaultsAt(s.attempt)
          /\ cl' = [cl EXCEPT ![c] =
                IF RetryDecision("Redis", s.attempt) = "retry"
                THEN [s EXCEPT !.attempt = @ + 1, !.lastErr = "Redis"]
                ELSE AfterBLPop([s EXCEPT !.lastErr = "Redis"], "Redis", "")]
          /\ UNCHANGED results
       \/ /\ vals = {} \/ s.attempt > 0   \* the context has expired: every
          /\ CanFailAt(s.attempt)     \* attempt left fails with DeadlineExceeded
          /\ faults' = FaultsAt(s.attempt)
          /\ cl' = [cl EXCEPT ![c] =
                AfterBLPop([s EXCEPT !.attempt = LastAttempt("Deadline", @),
                                     !.lastErr = "Deadline"], "Deadline", "")]
          /\ UNCHANGED results
    /\ UNCHANGED <<pool, free, busy, queue, claimed, calls>>

\* ------------------------------------ BrowserClient: Send and its callers
\* the CommandPayload BrowserClient.Send builds
CommandPayload(s, action, args) ==
    LET tid == <<s.id, s.nTasks + 1>> IN
    [TaskID |-> tid, BrowserID |-> s.Session.BrowserID,
     WorkerName |-> s.Session.WorkerName, Action |-> action,
     \* if args == nil { args = make(map[string]interface{}) }
     Args |-> Marshal(IF args.nil THEN GoMap({}) ELSE args),
     ResultKey |-> ResultKey(tid),
     Video |-> FALSE, Record |-> FALSE, ProfileID |-> "",
     BrowserType |-> s.Session.BrowserType]

RECURSIVE BSendStart(_, _, _, _), BSendReturn(_, _)

\* BrowserClient.Send up to its first store call (the RPUSH)
BSendStart(s, action, args, cont) ==
    IF SessionMissing(s)
    THEN BSendReturn([s EXCEPT !.cont = cont], Err("NotAcquired"))
    ELSE [s EXCEPT !.task = CommandPayload(s, action, args), !.nTasks = @ + 1,
                   !.pc = "bc_rpush", !.cont = cont]

\* (mutant: Release keeps the Session when the release command failed)
BReleaseDoneOnSuccess(s, r) ==
    [s EXCEPT !.SessionData = r.val,
              !.Session = IF r.err = "" THEN NoSession ELSE @, !.pc = "idle",
              !.cont = "", !.task = NoTask,
              !.ret = IF s.op.name = "Close" THEN Ok("") ELSE r]

\* the end of BrowserClient.Release: SessionData = res, Session = nil; Close
\* drops what Release returns and closes the store connection
BReleaseDone(s, r) ==
    [s EXCEPT !.SessionData = r.val, !.Session = NoSession, !.pc = "idle",
              !.cont = "", !.task = NoTask,
              !.ret = IF s.op.name = "Close" THEN Ok("") ELSE r]

\* the code that runs when a BrowserClient.Send started at cont returns r
BSendReturn(s, r) ==
    CASE s.cont = "user" ->
           [s EXCEPT !.pc = "idle", !.cont = "", !.task = NoTask, !.ret = r]
      [] s.cont = "assert" ->
           [s EXCEPT !.pc = "idle", !.cont = "", !.task = NoTask,
                     !.ret = BAfterAssertion(r)]
      [] s.cont = "acquire" ->       \* if record { c.Send("start_recording", nil, 5) }
           [s EXCEPT !.pc = "idle", !.cont = "", !.task = NoTask, !.ret = Ok("")]
      [] s.cont = "stop_recording" ->
           BSendStart(VideoURLAfter(s, r), "release_browser", NilMap,
                      "release_browser")
      [] OTHER -> BReleaseDone(s, r)

\* the loop of BrowserClient.Acquire moves to the next worker, or ends
NextWorker(s) ==
    IF Len(s.scan) > 1 THEN [s EXCEPT !.scan = Tail(@)]
    ELSE [s EXCEPT !.scan = <<>>, !.record = FALSE, !.pc = "idle",
                   !.ret = Err("NoBrowser")]

BrowserClientAcquire(c, t, record) ==
    /\ c \in BClients
    /\ CanCall(c)
    /\ calls' = calls + 1
    /\ LET s == [Enter(cl[c], "Acquire", t) EXCEPT !.record = record] IN
       \/ /\ CanFail                 \* SMEMBERS fails
          /\ faults' = faults + 1
          /\ cl' = [cl EXCEPT ![c] = [s EXCEPT !.ret = Err("NoWorkers"),
                                               !.scanFault = TRUE]]
       \/ /\ pool = {}
          /\ cl' = [cl EXCEPT ![c] = [s EXCEPT !.ret = Err("NoWorkers")]]
          /\ UNCHANGED faults
       \/ /\ pool # {}
          /\ \E order \in Orders(pool) :
               cl' = [cl EXCEPT ![c] = [s EXCEPT !.scan = order, !.pc = "spop"]]
          /\ UNCHANGED faults
    /\ UNCHANGED <<pool, free, busy, queue, results, claimed>>

\* bid, err := c.rdb.SPop(freeKey) for the worker at the head of the scan
BrowserClientSPop(c) ==
    /\ c \in BClients
    /\ cl[c].pc = "spop"
    /\ LET s == cl[c]
           key == <<Head(s.scan), s.op.type>> IN
       \/ \E b \in free[key] :
            /\ free' = [free EXCEPT ![key] = SPop(@, b)]
            /\ cl' = [cl EXCEPT ![c] = [s EXCEPT !.bid = b, !.pc = "sadd"]]
            /\ UNCHANGED faults
       \/ /\ free[key] = {}           \* redis.Nil: continue
          /\ cl' = [cl EXCEPT ![c] = NextWorker(s)]
          /\ UNCHANGED <<free, faults>>
       \/ /\ CanFail                  \* another error: continue
          /\ faults' = faults + 1
          /\ cl' = [cl EXCEPT ![c] = NextWorker([s EXCEPT !.scanFault = TRUE])]
          /\ UNCHANGED free
    /\ UNCHANGED <<pool, busy, queue, results, claimed, calls>>

\* BrowserClient.Acquire after the SADD, whose result it does not read
BAcquired(s) ==
    LET s1 == [s EXCEPT !.Session = [BrowserID |-> s.bid, WorkerName |-> Head(s.scan),
                                     BrowserType |-> s.op.type, Video |-> FALSE,
                                     Record |-> s.record, ProfileID |-> ""],
                        !.scan = <<>>, !.bid = "", !.record = FALSE]
    IN IF s.record THEN BSendStart(s1, "start_recording", NilMap, "acquire")
       ELSE [s1 EXCEPT !.pc = "idle", !.ret = Ok("")]

\* c.rdb.SAdd(busyKey, bid), then the Session is set
BrowserClientSAdd(c) ==
    /\ c \in BClients
    /\ cl[c].pc = "sadd"
    /\ LET s == cl[c]
           key == <<Head(s.scan), s.op.type>> IN
       /\ \/ /\ busy' = [busy EXCEPT ![key] = SAdd(@, s.bid)]
             /\ cl' = [cl EXCEPT ![c] = BAcquired(s)]
             /\ UNCHANGED faults
          \/ /\ CanFail               \* the SADD fails, unnoticed
             /\ faults' = faults + 1
             /\ cl' = [cl EXCEPT ![c] = BAcquired([s EXCEPT !.scanFault = TRUE])]
             /\ UNCHANGED busy
       /\ claimed' = [claimed EXCEPT ![s.bid] = @ \cup {c}]
    /\ UNCHANGED <<pool, free, queue, results, calls>>

BrowserClientSend(c, action, args) ==
    /\ c \in BClients
    /\ CanCall(c)
    /\ calls' = calls + 1
    /\ cl' = [cl EXCEPT ![c] = BSendStart(Enter(cl[c], "Send", ""), action, args, "user")]
    /\ UNCHANGED <<pool, free, busy, queue, results, claimed, faults>>

\* an assertion method of BrowserClient
BrowserClientHandleAssertion(c, action, args) ==
    /\ c \in BClients
    /\ CanCall(c)
    /\ calls' = calls + 1
    /\ cl' = [cl EXCEPT ![c] =
             BSendStart(Enter(cl[c], "Assert", ""), action, BWithScreenshot(args),
                        "assert")]
    /\ UNCHANGED <<pool, free, busy, queue, results, claimed, faults>>

BrowserClientRelease(c) ==
    /\ c \in BClients
    /\ CanCall(c)
    /\ calls' = calls + 1
    /\ LET s == Enter(cl[c], "Release", "") IN
       cl' = [cl EXCEPT ![c] =
                IF SessionMissing(s) THEN [s EXCEPT !.ret = Err("NotAcquired")]
                ELSE IF s.Session.Record
                     THEN BSendStart(s, "stop_recording", NilMap, "stop_recording")
                ELSE BSendStart(s, "release_browser", NilMap, "release_browser")]
    /\ UNCHANGED <<pool, free, busy, queue, results, claimed, faults>>

\* Close: Release when a Session is held, then c.rdb.Close()
BrowserClientClose(c) ==
    /\ c \in BClients
    /\ CanCall(c)
    /\ calls' = calls + 1
    /\ LET s == Enter(cl[c], "Close", "") IN
       cl' = [cl EXCEPT ![c] =
                IF SessionMissing(s) THEN s
                ELSE IF s.Session.Record
                     THEN BSendStart(s, "stop_recording", NilMap, "stop_recording")
                ELSE BSendStart(s, "release_browser", NilMap, "release_browser")]
    /\ UNCHANGED <<pool, free, busy, queue, results, claimed, faults>>

\* c.rdb.RPush(queue, json), whose result BrowserClient.Send does not read
BrowserClientRPush(c) ==
    /\ c \in BClients
    /\ cl[c].pc = "bc_rpush"
    /\ LET s == cl[c] IN
       /\ \/ /\ queue' = [queue EXCEPT ![s.task.WorkerName] = Append(@, s.task)]
             /\ UNCHANGED faults
          \/ /\ CanFail
             /\ faults' = faults + 1
             /\ UNCHANGED queue
       /\ cl' = [cl EXCEPT ![c] = [s EXCEPT !.pc = "poll"]]
    /\ UNCHANGED <<pool, free, busy, results, claimed, calls>>

\* The polling loop of BrowserClient.Send: a GET that finds the value (then
\* DEL and Unmarshal), a GET that fails, or the loop condition turning false.
\* A GET that finds nothing sleeps and changes nothing.
BrowserClientPoll(c) ==
    /\ c \in BClients
    /\ cl[c].pc = "poll"
    /\ LET s == cl[c]
           vals == {v \in Values : <<s.task.ResultKey, v>> \in results} IN
       \/ \E v \in vals :
            /\ results' = results \ {<<s.task.ResultKey, v>>}
            /\ cl' = [cl EXCEPT ![c] = BSendReturn([s EXCEPT !.lastErr = ""], Unmarshal(v))]
            /\ UNCHANGED faults
       \/ /\ CanFail                  \* GET returns an error
          /\ faults' = faults + 1
          /\ cl' = [cl EXCEPT ![c] = BSendReturn([s EXCEPT !.lastErr = "Redis"], Err("Redis"))]
          /\ UNCHANGED results
       \/ /\ CanFail                  \* time.Since(start) >= timeout
          /\ faults' = faults + 1
          /\ cl' = [cl EXCEPT ![c] = BSendReturn([s EXCEPT !.lastErr = "Timeout"], Err("Timeout"))]
          /\ UNCHANGED results
    /\ UNCHANGED <<pool, free, busy, queue, claimed, calls>>

\* The polling loop of a Send whose task is not on the queue and has no
\* result: no GET can find a value, and the loop ends when the timeout has
\* passed.
BrowserClientPollEnds(c) ==
    /\ c \in BClients
    /\ cl[c].pc = "poll"
    /\ LET s == cl[c] IN
       /\ \A v \in Values : <<s.task.ResultKey, v>> \notin results
       /\ \A i \in 1..Len(queue[s.task.WorkerName]) :
             queue[s.task.WorkerName][i].TaskID # s.task.TaskID
       /\ cl' = [cl EXCEPT ![c] =
                BSendReturn([s EXCEPT !.lastErr = "Timeout"], Err("Timeout"))]
    /\ UNCHANGED <<pool, free, busy, queue, results, claimed, calls, faults>>

\* The wait of a Send for a result that does not come ends at its timeout:
\* the first BLPOP returns redis.Nil, the polling loop finds
\* time.Since(start) >= timeout.
TimeoutPasses(c) ==
    /\ cl[c].pc \in {"blpop", "poll"}
    /\ LET s == cl[c] IN
       /\ \A v \in Values : <<s.task.ResultKey, v>> \notin results
       /\ IF s.pc = "blpop"
          THEN /\ s.attempt = 0
               /\ cl' = [cl EXCEPT ![c] = AfterBLPop([s EXCEPT !.lastErr = "nil"], "nil", "")]
          ELSE cl' = [cl EXCEPT ![c] =
                        BSendReturn([s EXCEPT !.lastErr = "Timeout"], Err("Timeout"))]
    /\ UNCHANGED <<pool, free, busy, queue, results, claimed, calls, faults>>

\* ------------------------------------------------------------- the workers
\* A worker takes the next task of its queue, writes one result to the
\* task's result key, and returns the browser of a release_browser task to
\* its free set.
WorkerWrites(w, V) ==
    /\ queue[w] # <<>>
    /\ LET t == Head(queue[w]) IN
       /\ queue' = [queue EXCEPT ![w] = Tail(@)]
       /\ \E v \in V : results' = results \cup {<<t.ResultKey, v>>}
       /\ IF t.Action = "release_browser"
          THEN /\ free' = [free EXCEPT ![Home(t.BrowserID)] = @ \cup {t.BrowserID}]
               /\ busy' = [busy EXCEPT ![Home(t.BrowserID)] = @ \ {t.BrowserID}]
               /\ claimed' = [claimed EXCEPT ![t.BrowserID] = {}]
          ELSE UNCHANGED <<free, busy, claimed>>
    /\ UNCHANGED <<pool, cl, calls, faults>>

WorkerStep(w) == WorkerWrites(w, Responses)

UserActions == {"get_title"}

\* the steps of the Client instances in L
ClientStep(L) ==
    \/ \E c \in L, q \in Requests :
          Acquire(c, q.BrowserType, q.Video, q.ProfileID, q.Record) /\ UNCHANGED watch
    \/ \E c \in L, a \in UserActions : Send(c, a, NilMap) /\ UNCHANGED watch
    \/ \E c \in L : Release(c) /\ UNCHANGED watch
    \/ \E c \in L : RPush(c) /\ UNCHANGED watch
    \/ \E c \in L : BLPop(c) /\ UNCHANGED watch

\* the steps of the BrowserClient instances in B
BrowserClientStep(B) ==
    \/ \E c \in B, q \in BRequests :
          BrowserClientAcquire(c, q.BrowserType, q.Record) /\ UNCHANGED watch
    \/ \E c \in B, a \in UserActions : BrowserClientSend(c, a, NilMap) /\ UNCHANGED watch
    \/ \E c \in B : BrowserClientRelease(c) /\ UNCHANGED watch
    \/ \E c \in B : BrowserClientSPop(c) /\ UNCHANGED watch
    \/ \E c \in B : BrowserClientSAdd(c) /\ UNCHANGED watch
    \/ \E c \in B : BrowserClientRPush(c) /\ UNCHANGED watch
    \/ \E c \in B : BrowserClientPoll(c) /\ UNCHANGED watch

Worker == \E w \in Workers : WorkerStep(w) /\ UNCHANGED watch

\* ------------------------------------------------------------------- time
Max(a, b) == IF a > b THEN a ELSE b

\* (mutant: the sleeps grow by 0.2 s, they are 0.2 s, 0.4 s, 0.6 s)
SleepTimeLinear(attempt) == backoffFactor * attempt

\* (mutant: the shift is by attempt, the sleeps are 0.4 s, 0.8 s, 1.6 s)
SleepTimeShifted(attempt) == backoffFactor * 2 ^ attempt

\* sleepTime := time.Second * backoffFactor * (1 << (attempt - 1))
SleepTime(attempt) == backoffFactor * 2 ^ (attempt - 1)

\* the sleeps of executeWithRetry from a failure of the given attempt on,
\* when every further attempt fails at once with the same error
RECURSIVE SleepsFrom(_, _)
SleepsFrom(err, attempt) ==
    IF RetryDecision(err, attempt) = "retry"
    THEN SleepTime(attempt + 1) + SleepsFrom(err, attempt + 1) ELSE 0

\* the first check of time.Since(start) < timeout that fails, the loop
\* sleeping pollInterval between two checks
RECURSIVE PollEnd(_)
PollEnd(t) == IF t < Timeout THEN PollEnd(t + pollInterval) ELSE t

\* The time the step of client c from cl[c] to cl'[c] takes. A store call
\* that is answered takes no time; the waits are the sleeps of
\* executeWithRetry, the BLPOP blocked until a value, a failure (after d), the
\* timeout of the command or the deadline of its context, and the polling
\* loop. Once the deadline has passed a BLPOP only fails with
\* DeadlineExceeded; redis.Nil can come from the first attempt only, whose
\* command timeout ends with the deadline.
Elapse(c) ==
    LET s == cl[c]
        t == cl'[c]
        w == watch[c]
        left == w.since + Timeout - w.elapsed
        sleep == IF t.pc = s.pc /\ t.task = s.task /\ t.attempt = s.attempt + 1
                 THEN SleepTime(t.attempt) ELSE 0
        Set(v) == watch' = [watch EXCEPT ![c] = v]
    IN CASE s.pc = "idle" -> Set(NoWatch)
         [] s.pc = "rpush" ->
              IF t.lastErr = "" THEN Set([w EXCEPT !.since = w.elapsed])
              ELSE Set([w EXCEPT !.elapsed = @ + sleep, !.appendFails = @ + 1])
         [] s.pc = "blpop" ->
              CASE t.lastErr = "nil" ->
                     s.attempt = 0 /\ Set([w EXCEPT !.elapsed = @ + Timeout])
                [] t.lastErr = "Deadline" ->
                     Set([w EXCEPT !.elapsed = Max(@, w.since + Timeout)
                                                 + SleepsFrom("Deadline", s.attempt)])
                [] OTHER ->
                     /\ left > 0
                     /\ \E d \in 0..(left - 1) : Set([w EXCEPT !.elapsed = @ + d + sleep])
         [] s.pc = "bc_rpush" -> Set([w EXCEPT !.since = w.elapsed])
         [] s.pc = "poll" ->
              IF t.lastErr = "Timeout"
              THEN Set([w EXCEPT !.elapsed = w.since + PollEnd(0)])
              ELSE \E d \in 0..(Timeout - 1) :
                     /\ d % pollInterval = 0
                     /\ Set([w EXCEPT !.elapsed = w.since + d])
         [] OTHER -> UNCHANGED watch

\* the steps of the Client instances in L, with their time
TimedClientStep(L) ==
    \/ \E c \in L, q \in Requests :
          Acquire(c, q.BrowserType, q.Video, q.ProfileID, q.Record) /\ Elapse(c)
    \/ \E c \in L, a \in UserActions : Send(c, a, NilMap) /\ Elapse(c)
    \/ \E c \in L : Release(c) /\ Elapse(c)
    \/ \E c \in L : RPush(c) /\ Elapse(c)
    \/ \E c \in L : BLPop(c) /\ Elapse(c)

\* the steps of the BrowserClient instances in B, with their time
TimedBrowserClientStep(B) ==
    \/ \E c \in B, q \in BRequests :
          BrowserClientAcquire(c, q.BrowserType, q.Record) /\ Elapse(c)
    \/ \E c \in B, a \in UserActions : BrowserClientSend(c, a, NilMap) /\ Elapse(c)
    \/ \E c \in B : BrowserClientRelease(c) /\ Elapse(c)
    \/ \E c \in B : BrowserClientSPop(c) /\ Elapse(c)
    \/ \E c \in B : BrowserClientSAdd(c) /\ Elapse(c)
    \/ \E c \in B : BrowserClientRPush(c) /\ Elapse(c)
    \/ \E c \in B : BrowserClientPoll(c) /\ Elapse(c)

\* one Client and one BrowserClient share the store
Next == ClientStep({"c1"}) \/ BrowserClientStep({"d1"}) \/ Worker
Spec == Init /\ [][Next]_vars

\* Client instances only
NextLua == ClientStep(LClients) \/ Worker
SpecLua == Init /\ [][NextLua]_vars

\* BrowserClient instances only
NextBC == BrowserClientStep(BClients) \/ Worker
SpecBC == Init /\ [][NextBC]_vars

\* one Client instance and the workers
NextClient == ClientStep({"c1"}) \/ Worker
SpecClient == Init /\ [][NextClient]_vars

\* {c} while client c is the only client that has made calls
Alone(c) == IF \A o \in Clients \ {c} : cl[o].op = NoOp THEN {c} ELSE {}

\* a Client or a BrowserClient, alone, and the workers, with the time of the
\* calls
NextTimed ==
    TimedClientStep(Alone("c1")) \/ TimedBrowserClientStep(Alone("d1")) \/ Worker
SpecTimed == Init /\ [][NextTimed]_vars

\* Send calls that pass args
WithArgs ==
    \/ \E c \in Alone("c1"), a \in UserActions, x \in SendArgs \ {NilMap} :
          Send(c, a, x) /\ UNCHANGED watch
    \/ \E c \in Alone("d1"), a \in UserActions, x \in SendArgs \ {NilMap} :
          BrowserClientSend(c, a, x) /\ UNCHANGED watch

\* a Client or a BrowserClient, alone, whose Send calls pass args, and the
\* workers
NextWire ==
    \/ ClientStep(Alone("c1"))
    \/ BrowserClientStep(Alone("d1"))
    \/ WithArgs
    \/ Worker
SpecWire == Init /\ [][NextWire]_vars

\* a Client or a BrowserClient, alone, with every operation of its API, and
\* the workers
Close == \E c \in Alone("d1") : BrowserClientClose(c) /\ UNCHANGED watch
NextOps ==
    \/ ClientStep(Alone("c1"))
    \/ BrowserClientStep(Alone("d1"))
    \/ Close
    \/ Worker
SpecOps == Init /\ [][NextOps]_vars

\* a Client or a BrowserClient, alone, and workers that may also answer with
\* the JSON text null
WorkerNull == \E w \in Workers : WorkerWrites(w, {"null"}) /\ UNCHANGED watch
NextNull ==
    \/ ClientStep(Alone("c1"))
    \/ BrowserClientStep(Alone("d1"))
    \/ Worker
    \/ WorkerNull
SpecNull == Init /\ [][NextNull]_vars

\* a Client or a BrowserClient, alone, a Client session with video and record,
\* and workers that answer every command with a success response, with or
\* without a video_url and a record_url
AcquireMedia ==
    \E c \in Alone("c1") : Acquire(c, "chrome", TRUE, "", TRUE) /\ UNCHANGED watch
WorkerMedia == \E w \in Workers : WorkerWrites(w, {"ok", "media"}) /\ UNCHANGED watch
NextMedia ==
    \/ ClientStep(Alone("c1"))
    \/ BrowserClientStep(Alone("d1"))
    \/ AcquireMedia
    \/ WorkerMedia
SpecMedia == Init /\ [][NextMedia]_vars

\* a Client or a BrowserClient, alone, with its assertion methods, and
\* workers that answer with a status of "ok", "error" or "fail"
AssertArgs == GoMap({<<"selector", "#a">>, <<"text", "hi">>})
Assertion ==
    \/ \E c \in Alone("c1"), shot \in {"true", "false"} :
          handleAssertion(c, "assert_text",
                          GoMap(AssertArgs.m \cup {<<"screenshot", shot>>}))
          /\ UNCHANGED watch
    \/ \E c \in Alone("d1") :
          BrowserClientHandleAssertion(c, "assert_text", AssertArgs) /\ UNCHANGED watch
WorkerAssert ==
    \E w \in Workers : WorkerWrites(w, {"ok", "fail", "assert_fail"}) /\ UNCHANGED watch
NextAssert ==
    \/ ClientStep(Alone("c1"))
    \/ BrowserClientStep(Alone("d1"))
    \/ Assertion
    \/ WorkerAssert
SpecAssert == Init /\ [][NextAssert]_vars

\* a Client or a BrowserClient, alone, and the workers; the polling loop of
\* a task that the store did not append runs to its timeout
PollEnds == \E c \in Alone("d1") : BrowserClientPollEnds(c) /\ UNCHANGED watch
NextPoll ==
    \/ ClientStep(Alone("c1"))
    \/ BrowserClientStep(Alone("d1"))
    \/ PollEnds
    \/ Worker
SpecPoll == Init /\ [][NextPoll]_vars

\* The state of a Client after its first session, acquired with video and
\* record, was released and the worker answered every command: the session
\* has left its URLs in the client. MaxCalls further calls are followed from
\* there.
Released(c) ==
    [InitClient(c) EXCEPT !.InitSent = TRUE, !.SessionData = "ok", !.nTasks = 4,
                          !.op = [name |-> "Release", type |-> ""],
                          !.ret = Ok("ok"), !.VideoURL = "v.mp4",
                          !.RecordURL = "r.json"]
InitAfterSession ==
    /\ watch = [c \in Clients |-> NoWatch]
    /\ pool = Workers
    /\ free = [p \in Pairs |-> HomeSet(p)]
    /\ busy = [p \in Pairs |-> {}]
    /\ queue = [w \in Workers |-> <<>>]
    /\ results = {}
    /\ cl = [c \in Clients |-> IF c = "c1" THEN Released(c) ELSE InitClient(c)]
    /\ claimed = [b \in Instances |-> {}]
    /\ calls = 0
    /\ faults = 0
NextAfterSession == ClientStep({"c1"}) \/ WorkerMedia
SpecAfterSession == InitAfterSession /\ [][NextAfterSession]_vars

\* A Client or a BrowserClient, alone, with sessions that take a video or are
\* recorded, and
\* the workers, all of them registered, with waits that end at their timeout. A call that has
\* started goes on: its store calls return, with an answer or an error, and its waits end (weak fairness of
\* the steps inside a call); nothing is assumed of the workers or of the
\* callers. Running are the instances that make calls here.
Running == {"c1", "d1"}
WorkerLive == \E w \in Workers : WorkerWrites(w, {"ok"}) /\ UNCHANGED watch
InCall(c) ==
    /\ \/ RPush(c) \/ BLPop(c)
       \/ BrowserClientSPop(c) \/ BrowserClientSAdd(c)
       \/ BrowserClientRPush(c) \/ BrowserClientPoll(c)
       \/ TimeoutPasses(c)
    /\ UNCHANGED watch
AcquireRecorded ==
    \E c \in Alone("d1") : BrowserClientAcquire(c, "chrome", TRUE) /\ UNCHANGED watch
AcquireVideo ==
    \E c \in Alone("c1") : Acquire(c, "chrome", TRUE, "", FALSE) /\ UNCHANGED watch
NextLive ==
    \/ AcquireVideo
    \/ \E c \in Alone("c1"), a \in UserActions : Send(c, a, NilMap) /\ UNCHANGED watch
    \/ \E c \in Alone("c1") : Release(c) /\ UNCHANGED watch
    \/ AcquireRecorded
    \/ \E c \in Alone("d1"), a \in UserActions :
          BrowserClientSend(c, a, NilMap) /\ UNCHANGED watch
    \/ \E c \in Alone("d1") : BrowserClientRelease(c) /\ UNCHANGED watch
    \/ \E c \in Running : InCall(c)
    \/ WorkerLive
InitLive == Init /\ pool = Workers
SpecLive ==
    /\ InitLive /\ [][NextLive]_vars
    /\ \A c \in Running : WF_vars(InCall(c))

\* one Client instance and the workers, with a store whose answers to an
\* RPUSH may be lost
AnswerLost == \E c \in {"c1"} : RPushAnswerLost(c) /\ UNCHANGED watch
NextLost == ClientStep({"c1"}) \/ AnswerLost \/ Worker
SpecLost == Init /\ [][NextLost]_vars

\* ================================================================ claims
Returned(c, name) == cl[c].pc = "idle" /\ cl[c].op.name = name
Min(a, b) == IF a < b THEN a ELSE b
Last(q) == q[Len(q)]
\* the step in which client c starts the API call name
Starts(c, name) ==
    /\ cl[c].pc = "idle"
    /\ calls' = calls + 1
    /\ cl'[c] # cl[c]
    /\ cl'[c].op.name = name

\* C1: no browser instance is bound into the Session of two callers of
\* Acquire unless a worker returned the instance to free in between.
C1_Exclusive == \A b \in Instances : Cardinality(claimed[b]) <= 1

\* reached: the BrowserClient has popped an instance and not yet added it to
\* busy while the Client holds another instance of the same browser type
C1_Witness ==
    /\ cl["d1"].pc = "sadd"
    /\ cl["d1"].op.type = "chrome"
    /\ cl["c1"].Session.BrowserType = "chrome"
    /\ cl["c1"].Session.BrowserID \in Instances \ {cl["d1"].bid}

\* C2: with Client.Acquire and the workers as the only writers, every
\* instance of a (worker, browser type) pair is in exactly one of the pair's
\* free set and busy set.
C2_FreeXorBusy ==
    \A p \in Pairs : \A b \in HomeSet(p) : (b \in free[p]) # (b \in busy[p])

\* reached: one client holds a busy instance after a worker has answered the
\* release_browser task of the other client
C2_Witness ==
    /\ cl["c1"].Session.BrowserID = "b1"
    /\ "b1" \in busy[Home("b1")]
    /\ Returned("c2", "Release")
    /\ cl["c2"].SessionData \in {"ok", "fail"}

\* C3: in BrowserClient.Acquire the pop from free and the add to busy are one
\* indivisible store operation: no reachable state has an instance in
\* neither set of its pair.
C3_PopAddIndivisible ==
    \A p \in Pairs : \A b \in HomeSet(p) : b \in free[p] \cup busy[p]

\* Every client has made at most one call, an Acquire for type t that has
\* returned: the Acquire calls are the only calls, so no worker has changed
\* the pool and the free instances at call time are those of Init.
OnlyAcquires(t) ==
    /\ \A c \in Clients :
         /\ cl[c].pc = "idle"
         /\ cl[c].op = NoOp \/ cl[c].op = [name |-> "Acquire", type |-> t]
    /\ calls = Cardinality({c \in Clients : cl[c].op # NoOp})
Callers == {c \in Clients : cl[c].op # NoOp}
Succeeded == {c \in Callers : cl[c].ret.err = ""}
\* k: the free instances of t the pool holds
PoolFree(t) == UNION {HomeSet(<<w, t>>) : w \in pool}

C5_NoWorkers ==
    \A c \in Clients :
      (Returned(c, "Acquire") /\ pool = {} /\ ~cl[c].scanFault)
        => cl[c].ret.err = "NoWorkers"

\* C6: Acquire fails with NoBrowserAvailableError only when the pool is
\* non-empty, and not while a pool worker holds a free instance of the type
\* for the whole call (stated for a call that is the only call of the run).
C6_NoBrowserAvailable ==
    \A c \in Clients :
      (Returned(c, "Acquire") /\ cl[c].ret.err = "NoBrowser") =>
        /\ pool # {}
        /\ calls = 1 => \A w \in pool : free[<<w, cl[c].op.type>>] = {}

\* C7: a Send on an empty Session returns NotAcquiredError at once and creates
\* no task; every task appended to a queue is appended by a client whose
\* Session is non-empty, and carries that Session's browser and worker.
C7_NotAcquired ==
    /\ [][\A c \in Clients :
            (Starts(c, "Send") /\ cl[c].Session = NoSession) =>
              /\ Returned(c, "Send")'
              /\ cl'[c].ret = Err("NotAcquired")
              /\ cl'[c].nTasks = cl[c].nTasks
              /\ UNCHANGED <<queue, results>>]_vars
    /\ [][\A w \in Workers :
            Len(queue'[w]) > Len(queue[w]) =>
              LET t == Last(queue'[w]) IN
              /\ cl[t.TaskID[1]].Session # NoSession
              /\ t.BrowserID = cl[t.TaskID[1]].Session.BrowserID
              /\ t.WorkerName = w]_vars

\* reached: a Send has returned NotAcquiredError
C7_Witness ==
    \E c \in Clients : Returned(c, "Send") /\ cl[c].ret.err = "NotAcquired"

\* C8: after Release returns the Session is empty, whatever the teardown and
\* release commands returned, and a Send that follows returns
\* NotAcquiredError.
C8_ReleaseClears ==
    /\ [](\A c \in Clients : Returned(c, "Release") => cl[c].Session = NoSession)
    /\ [][\A c \in Clients :
            (Starts(c, "Send") /\ cl[c].op.name = "Release") =>
              Returned(c, "Send")' /\ cl'[c].ret = Err("NotAcquired")]_vars

\* reached: a Release whose release_browser command was answered with status
\* fail has returned and a Send has followed it
C8_Witness ==
    \E c \in Clients :
      /\ Returned(c, "Send")
      /\ cl[c].SessionData = "fail"
      /\ cl[c].ret.err = "NotAcquired"

\* C9: no step of a Send call changes the Session, a Send that fails returns
\* with the Session still set, and only Release turns a non-empty Session
\* into the empty one.
C9_SendKeepsSession ==
    /\ [][\A c \in Clients :
            /\ cl'[c].op.name = "Send" => cl'[c].Session = cl[c].Session
            /\ (cl[c].Session # NoSession /\ cl'[c].Session = NoSession)
                 => (cl[c].op.name = "Release" /\ Returned(c, "Release")')]_vars
    /\ [](\A c \in Clients :
            (Returned(c, "Send") /\ cl[c].ret.err \notin {"", "NotAcquired"})
              => cl[c].Session # NoSession)

\* reached: a Send has failed by timeout on a client that holds a Session
C9_Witness ==
    \E c \in Clients :
      /\ Returned(c, "Send")
      /\ cl[c].ret.err = "Timeout"
      /\ cl[c].Session # NoSession

\* C10: when the BLPOP reports redis.Nil the retry wrapper returns it without
\* a further attempt or sleep (the attempt count stays), and the Send fails
\* with the timeout error; a store error ends in another error.
C10_NilNotRetried ==
    \A c \in LClients :
      /\ cl[c].lastErr = "nil" => (cl[c].pc # "blpop" /\ cl[c].attempt = 0)
      /\ (Returned(c, "Send") /\ cl[c].lastErr = "nil") => cl[c].ret = Err("Timeout")
      /\ (Returned(c, "Send") /\ cl[c].lastErr = "Redis")
           => cl[c].ret.err \in {"RPC", "Redis"}

\* reached: a Send has failed with the timeout error
C10_Witness ==
    \E c \in LClients :
      Returned(c, "Send") /\ cl[c].lastErr = "nil" /\ cl[c].ret = Err("Timeout")

\* client c is inside executeWithRetry and this step is one invocation of
\* the wrapped store operation
Invokes(c) == cl[c].pc \in {"rpush", "blpop"} /\ cl'[c] # cl[c]
\* the step leaves the wrapper for another invocation of the same operation
Retries(c) ==
    /\ cl'[c].pc = cl[c].pc
    /\ cl'[c].task = cl[c].task
    /\ cl'[c].attempt = cl[c].attempt + 1

\* C11: executeWithRetry invokes the store operation at most 4 times: an
\* invocation that succeeds or reports redis.Nil ends the loop, an invocation
\* that fails with another error is followed by a retry while fewer than 3
\* retries were made, and the 4th failure ends the loop with that error.
C11_AtMostFour ==
    /\ [](\A c \in LClients : cl[c].attempt + 1 <= 4)
    /\ [][\A c \in LClients : Invokes(c) =>
            LET e == cl'[c].lastErr IN
            /\ e \in {"", "nil"} => ~Retries(c)
            /\ (e = "Redis" /\ cl[c].attempt < 3) => Retries(c)
            /\ (e = "Redis" /\ cl[c].attempt = 3) =>
                  /\ ~Retries(c)
                  /\ cl'[c].task # cl[c].task
                  /\ cl[c].cont = "user" => cl'[c].ret.err \in {"Redis", "RPC"}]_vars

\* reached: the append has failed three times and the 4th invocation is due
C11_Witness ==
    \E c \in LClients : cl[c].pc = "rpush" /\ cl[c].attempt = 3 /\ cl[c].lastErr = "Redis"

\* C12: while the RPUSH of a Send keeps failing the call never goes on to the
\* BLPOP on the result key, and when the 4th attempt fails the Send returns
\* the store error, with Session and InitSent as they were.
C12_AppendFails ==
    [][\A c \in LClients :
         (cl[c].pc = "rpush" /\ cl[c].cont = "user" /\ cl'[c] # cl[c]
            /\ cl'[c].lastErr = "Redis") =>
           /\ cl'[c].pc # "blpop"
           /\ cl'[c].Session = cl[c].Session
           /\ cl'[c].InitSent = cl[c].InitSent
           /\ UNCHANGED results
           /\ cl[c].attempt = 3 =>
                 (Returned(c, "Send")' /\ cl'[c].ret = Err("Redis"))
           /\ cl[c].attempt < 3 => cl'[c].pc = "rpush"]_vars

\* reached: a Send has returned the store error of its RPUSH on a client that
\* holds a Session
C12_Witness ==
    \E c \in LClients :
      /\ Returned(c, "Send")
      /\ cl[c].ret = Err("Redis")
      /\ cl[c].Session # NoSession

\* C13: a Send whose RPUSH failed twice and then succeeded is waiting for the
\* result or has returned something else than the append error, after the
\* two sleeps of 0.2 s and 0.4 s; and when it takes a well-formed result from
\* its result key it returns that result, with no error.
C13_RetryThenSucceed ==
    /\ [](\A c \in LClients :
            (cl[c].op.name = "Send" /\ watch[c].appendFails = 2) =>
              /\ watch[c].elapsed >= SleepTime(1) + SleepTime(2)
              /\ \/ cl[c].pc = "rpush" /\ cl[c].attempt = 2
                 \/ cl[c].pc = "blpop"
                 \/ Returned(c, "Send") /\ cl[c].ret.err # "Redis")
    /\ [][\A c \in LClients : \A v \in {"ok", "fail"} :
            (/\ cl[c].op.name = "Send" /\ watch[c].appendFails = 2
             /\ cl[c].pc = "blpop"
             /\ <<cl[c].task.ResultKey, v>> \in results \ results') =>
               (Returned(c, "Send")' /\ cl'[c].ret = Ok(v))]_vars

\* reached: a Send whose RPUSH failed twice has returned the worker's result
C13_Witness ==
    \E c \in LClients :
      /\ Returned(c, "Send")
      /\ watch[c].appendFails = 2
      /\ cl[c].ret = Ok("ok")

\* one retry-backoff cycle: 0.2 s + 0.4 s + 0.8 s, in units of 50 ms
BackoffCycle == 28

\* C14: a Send that ends because no result came (the BLPOP reported redis.Nil
\* or its context expired, the polling loop ran out of time) returns the
\* timeout error, no earlier than Timeout and no later than Timeout plus one
\* backoff cycle after the wait began, which is when the Send began unless
\* the RPUSH was retried; and no Send takes longer than the timeout and two
\* backoff cycles.
C14_TimeoutBound ==
    \A c \in Clients :
      /\ (Returned(c, "Send") /\ cl[c].lastErr \in {"nil", "Deadline", "Timeout"}) =>
            /\ cl[c].ret = Err("Timeout")
            /\ watch[c].elapsed >= watch[c].since + Timeout
            /\ watch[c].elapsed <= watch[c].since + Timeout + BackoffCycle
            /\ watch[c].appendFails = 0 => watch[c].since = 0
      /\ cl[c].op.name = "Send" => watch[c].elapsed <= Timeout + 2 * BackoffCycle

\* reached: a Send of the Client has returned the timeout error one backoff
\* cycle after its timeout
C14_Witness ==
    \E c \in LClients :
      /\ Returned(c, "Send")
      /\ cl[c].ret = Err("Timeout")
      /\ watch[c].elapsed = Timeout + BackoffCycle

\* the args a worker reads from a task: the pairs of the object, none for null
WorkerArgs(task) == {task.Args.members[i] : i \in 1..Len(task.Args.members)}
\* the pairs a text written by a worker holds
TextPairs(text) == {text.members[i] : i \in 1..Len(text.members)}

C16_FlagsOnce == \A c \in LClients : cl[c].flagged <= 1

\* C17: a Release on an empty Session returns NotAcquiredError as its error,
\* creates no task, changes no store key and leaves Session, SessionData and
\* VideoURL as they were.
C17_ReleaseOnEmpty ==
    [][\A c \in Clients :
         (Starts(c, "Release") /\ cl[c].Session = NoSession) =>
           /\ Returned(c, "Release")'
           /\ cl'[c].ret = Err("NotAcquired")
           /\ cl'[c].nTasks = cl[c].nTasks
           /\ cl'[c].Session = NoSession
           /\ cl'[c].SessionData = cl[c].SessionData
           /\ cl'[c].VideoURL = cl[c].VideoURL
           /\ UNCHANGED <<pool, free, busy, queue, results>>]_vars

\* C18: a client has at most one claimed instance at a time: no step of an
\* Acquire call of a client that holds a Session moves an instance to busy.
C18_OneInstance ==
    [][\A c \in Clients :
         (/\ cl'[c] # cl[c]
          /\ cl'[c].op.name = "Acquire"
          /\ cl[c].Session # NoSession) => busy' = busy]_vars

\* C19: the task of a Send is placed on its worker's queue at most once, also
\* when append attempts are reported as failed and retried: no queue holds two
\* entries with the same task ID.
C19_QueuedOnce ==
    \A w \in Workers : \A i, j \in 1..Len(queue[w]) :
      i # j => queue[w][i].TaskID # queue[w][j].TaskID

\* the task IDs client c has created so far
Created(c) == {<<c, i>> : i \in 1..cl[c].nTasks}

\* C20: the result key of a new task differs from the result key of every
\* task created before it, by this or another client, and a result written to
\* the key of a task that is not the current task of its client (a late
\* result of a Send that has returned) is never taken by any step.
C20_FreshResultKey ==
    /\ [][\A c \in Clients :
            cl'[c].nTasks > cl[c].nTasks =>
              \A o \in Clients : \A tid \in Created(o) :
                cl'[c].task.ResultKey # ResultKey(tid)]_vars
    /\ [][\A c \in Clients : \A tid \in Created(c) : \A v \in Responses :
            (/\ <<ResultKey(tid), v>> \in results
             /\ cl[c].task.TaskID # tid) =>
               <<ResultKey(tid), v>> \in results']_vars

\* reached: a Send has returned the response to its own task while the late
\* result of the client's earlier, timed-out task is still under its key
C20_Witness ==
    \E c \in Clients : \E v \in Responses :
      /\ Returned(c, "Send")
      /\ cl[c].ret.err = ""
      /\ cl[c].nTasks = 2
      /\ <<ResultKey(<<c, 1>>), v>> \in results

\* C21: a step of a client (any step that is not a worker's) adds no member
\* to a free set and removes none from a busy set; it changes the pool only
\* inside an Acquire call, and a member it adds to a busy set is a member of
\* that pair's instances that is no longer in the free set.
C21_ClientFrame ==
    [][cl' # cl =>
         /\ \A p \in Pairs : free'[p] \subseteq free[p] /\ busy[p] \subseteq busy'[p]
         /\ \A p \in Pairs : \A b \in busy'[p] \ busy[p] :
              b \in HomeSet(p) /\ b \notin free'[p]
         /\ (free' # free \/ busy' # busy) =>
              \E c \in Clients : cl'[c] # cl[c] /\ cl'[c].op.name = "Acquire"
         /\ pool' = pool]_vars

\* reached: a client has acquired and its Release, whose commands were
\* answered, has returned
C21_Witness ==
    \E c \in Clients :
      /\ Returned(c, "Release")
      /\ cl[c].ret.err = ""
      /\ cl[c].nTasks >= 2

\* C25: a Close on a client that holds a Session returns only at the end of
\* a release_browser command sent for that Session's browser and worker, with
\* the Session empty; a Close on a client with an empty Session returns at
\* once and creates no task.
C25_CloseReleases ==
    /\ [][\A c \in BClients :
            (Starts(c, "Close") /\ cl[c].Session = NoSession) =>
              /\ Returned(c, "Close")'
              /\ cl'[c].nTasks = cl[c].nTasks
              /\ UNCHANGED <<queue, results>>]_vars
    /\ [][\A c \in BClients :
            (Starts(c, "Close") /\ cl[c].Session # NoSession) =>
              ~Returned(c, "Close")']_vars
    /\ [][\A c \in BClients :
            (cl[c].op.name = "Close" /\ cl[c].pc # "idle" /\ Returned(c, "Close")') =>
              /\ cl[c].task.Action = "release_browser"
              /\ cl[c].task.BrowserID = cl[c].Session.BrowserID
              /\ cl[c].task.WorkerName = cl[c].Session.WorkerName
              /\ cl[c].pc = "poll"
              /\ cl'[c].Session = NoSession]_vars
    /\ [](\A c \in BClients : Returned(c, "Close") => cl[c].Session = NoSession)

\* reached: a Close on a client holding a Session has returned after a worker
\* took its release_browser task, freed the browser and answered
C25_Witness ==
    \E c \in BClients :
      /\ Returned(c, "Close")
      /\ cl[c].nTasks >= 1
      /\ \A p \in Pairs : busy[p] = {}
      /\ cl[c].SessionData \in {"ok", "fail"}

\* C22: a Send that takes from its result key a value that is not the text of
\* a JSON object returns the parse error and no payload, and leaves Session
\* and InitSent as they were.
C22_ProtocolError ==
    [][\A c \in Clients : \A v \in Values :
         (/\ cl[c].cont = "user"
          /\ Body(v).kind # "object"
          /\ <<cl[c].task.ResultKey, v>> \in results \ results') =>
            /\ Returned(c, "Send")'
            /\ cl'[c].ret = Err("Parse")
            /\ cl'[c].Session = cl[c].Session
            /\ cl'[c].InitSent = cl[c].InitSent]_vars

\* the string a result value holds under a key: ok is FALSE when it has none
URLIn(v, key) == StringAt(Decode(Body(v)).map, key)
\* client c takes value v from the result key of its current task
Takes(c, v) == <<cl[c].task.ResultKey, v>> \in results \ results'
\* at the last step of a Release, the task ID of its stop_video or
\* stop_recording command
StopVideoTask(c) ==
    <<c, cl[c].nTasks - (IF c \in LClients /\ cl[c].Session.Record THEN 2 ELSE 1)>>

\* C23 (as stated): when a Release returns for a session with video (Client)
\* or recording (BrowserClient) and the worker has answered the session's
\* stop command with a video_url, VideoURL is that URL, also when the answer
\* was written after the stop command's Send had given up.
C23_Original ==
    [][\A c \in Clients : \A v \in Values :
         (/\ cl[c].op.name = "Release"
          /\ cl[c].cont = "release_browser"
          /\ Returned(c, "Release")'
          /\ IF c \in LClients THEN cl[c].Session.Video ELSE cl[c].Session.Record
          /\ <<ResultKey(StopVideoTask(c)), v>> \in results
          /\ URLIn(v, "video_url").ok) =>
            cl'[c].VideoURL = URLIn(v, "video_url").val]_vars

\* C23 (amended): when the Send of a stop_video or stop_recording command
\* takes an answer that holds a video_url, VideoURL becomes that URL, and
\* when the Send of a stop_record command takes an answer that holds a
\* record_url, RecordURL becomes that URL; no other step changes VideoURL or
\* RecordURL, so they hold these URLs when the Release returns.
C23_Amended ==
    /\ [][\A c \in Clients : \A v \in Values :
            (/\ cl[c].cont \in {"stop_video", "stop_recording"}
             /\ Takes(c, v)
             /\ URLIn(v, "video_url").ok) =>
               cl'[c].VideoURL = URLIn(v, "video_url").val]_vars
    /\ [][\A c \in Clients : \A v \in Values :
            (/\ cl[c].cont = "stop_record"
             /\ Takes(c, v)
             /\ URLIn(v, "record_url").ok) =>
               cl'[c].RecordURL = URLIn(v, "record_url").val]_vars
    /\ [][\A c \in Clients :
            cl'[c].VideoURL # cl[c].VideoURL =>
              /\ cl[c].cont \in {"stop_video", "stop_recording"}
              /\ \E v \in Values : Takes(c, v) /\ URLIn(v, "video_url").ok]_vars
    /\ [][\A c \in Clients :
            cl'[c].RecordURL # cl[c].RecordURL =>
              /\ cl[c].cont = "stop_record"
              /\ \E v \in Values : Takes(c, v) /\ URLIn(v, "record_url").ok]_vars

\* reached: a Release of a session with video and record has returned with
\* both URLs taken from the answers to its stop commands
C23_Witness ==
    \E c \in LClients :
      /\ Returned(c, "Release")
      /\ cl[c].VideoURL = "v.mp4"
      /\ cl[c].RecordURL = "r.json"

\* the status member of a result value ("" when it has none)
StatusOf(v) == StringAt(Decode(Body(v)).map, "status").val
\* the step in which the assertion method of client c returns
AssertReturns(c) ==
    cl[c].op.name = "Assert" /\ cl[c].pc # "idle" /\ cl'[c].pc = "idle"

\* C24: when an assertion method returns and the worker's response to its
\* action, written to the action's result key, has status "fail", the method
\* returns an error; when the method returns a response of another status
\* that it has read, it returns no error.
C24_AssertionFails ==
    [][\A c \in Clients : \A v \in Values :
         /\ (/\ AssertReturns(c)
              /\ <<cl[c].task.ResultKey, v>> \in results
              /\ StatusOf(v) = "fail") => cl'[c].ret.err # ""
         /\ (/\ AssertReturns(c)
              /\ Takes(c, v)
              /\ Decode(Body(v)).err = ""
              /\ StatusOf(v) # "fail") => cl'[c].ret.err = ""]_vars

\* C24 for the responses the method has read: an error exactly when the
\* status of the response is "fail"
C24_Received ==
    [][\A c \in Clients : \A v \in Values :
         (AssertReturns(c) /\ Takes(c, v) /\ Decode(Body(v)).err = "") =>
           (cl'[c].ret.err # "" <=> StatusOf(v) = "fail")]_vars

\* the commands of a Release of session x, as the claim names them and as
\* each implementation names them
Commands(x, stopRecord) ==
    (IF x.Video THEN <<"stop_video">> ELSE <<>>)
      \o (IF x.Record THEN <<stopRecord>> ELSE <<>>)
      \o <<"release_browser">>
ReleaseCommands(c) ==
    Commands(cl[c].Session, IF c \in BClients THEN "stop_recording" ELSE "stop_record")
\* client c calls Send in this step
Sends(c) == cl'[c].nTasks = cl[c].nTasks + 1
\* in a Release of client c that holds a Session: the first command is the
\* first of cmds, a further command is sent only after the command before it
\* in cmds, and the Release returns only after the last of cmds
InOrder(c, cmds) ==
    /\ (Starts(c, "Release") /\ cl[c].Session # NoSession) =>
          Sends(c) /\ cl'[c].task.Action = cmds[1]
    /\ (cl[c].op.name \in {"Release", "Close"} /\ cl[c].pc # "idle" /\ Sends(c)) =>
          \E i \in 1..(Len(cmds) - 1) :
            cl[c].task.Action = cmds[i] /\ cl'[c].task.Action = cmds[i + 1]
    /\ (cl[c].op.name \in {"Release", "Close"} /\ cl[c].pc # "idle"
           /\ cl'[c].pc = "idle") =>
          cl[c].task.Action = "release_browser"

Wants(x) == x.ProfileID # "" \/ x.Video \/ x.Record
\* the warm-up command of client c
WarmUp(c) == IF c \in BClients THEN "start_recording" ELSE "get_title"
\* client s is inside a Send
InSend(s) == s.pc \in {"rpush", "blpop", "bc_rpush", "poll"}
\* the step in which the Acquire of client c returns success
AcquireSucceeds(c) ==
    /\ cl'[c] # cl[c]
    /\ cl'[c].op.name = "Acquire"
    /\ cl'[c].pc = "idle"
    /\ cl'[c].ret.err = ""

\* C27: an Acquire calls Send only once, for its warm-up command, after it
\* has set a Session for which a profile, video or record was requested; a
\* successful Acquire for such a Session returns from that Send, and a
\* successful Acquire for any other Session has called no Send.
C27_OneWarmUp ==
    [][\A c \in Clients :
         /\ (cl'[c].op.name = "Acquire" /\ Sends(c)) =>
               /\ ~InSend(cl[c])
               /\ cl'[c].task.Action = WarmUp(c)
               /\ cl'[c].Session # NoSession /\ Wants(cl'[c].Session)
         /\ AcquireSucceeds(c) =>
               /\ cl'[c].Session # NoSession
               /\ IF Wants(cl'[c].Session)
                  THEN InSend(cl[c]) /\ cl[c].task.Action = WarmUp(c)
                       /\ cl[c].op.name = "Acquire"
                  ELSE ~InSend(cl[c]) /\ cl'[c].nTasks = cl[c].nTasks]_vars

\* reached: an Acquire with a warm-up has returned after its one command,
\* which the worker has taken from the queue
C27_Witness ==
    \E c \in Clients :
      /\ Returned(c, "Acquire")
      /\ cl[c].ret.err = ""
      /\ Wants(cl[c].Session)
      /\ cl[c].nTasks = 1
      /\ cl[c].InitSent

\* the step in which the warm-up Send of the Acquire of client c returns a
\* failure: a store error, a timeout, or a value that is no JSON
WarmUpFails(c) ==
    /\ cl[c].op.name = "Acquire" /\ cl[c].cont = "acquire" /\ InSend(cl[c])
    /\ cl'[c].pc = "idle"
    /\ \/ cl'[c].lastErr # ""
       \/ \E v \in Values : Takes(c, v) /\ Decode(Body(v)).err # ""

\* C28: when the warm-up command of an Acquire fails, the Session stays as
\* the Acquire set it and no pool set changes: the instance stays in the
\* busy set and does not return to the free set.
C28_NoRollback ==
    [][\A c \in Clients :
         WarmUpFails(c) =>
           /\ cl'[c].Session = cl[c].Session
           /\ cl'[c].Session # NoSession
           /\ free' = free /\ busy' = busy /\ pool' = pool
           /\ cl[c].Session.BrowserID \notin free'[Home(cl[c].Session.BrowserID)]]_vars

\* reached: an Acquire has returned after its warm-up command failed, with
\* its Session bound to an instance of the busy set
C28_Witness ==
    \E c \in Clients :
      /\ Returned(c, "Acquire")
      /\ cl[c].lastErr # ""
      /\ cl[c].nTasks = 1
      /\ cl[c].Session # NoSession
      /\ cl[c].Session.BrowserID \in busy[Home(cl[c].Session.BrowserID)]

\* C29: when the warm-up command of an Acquire fails, the Acquire returns
\* an error to its caller.
C29_WarmUpReported ==
    [][\A c \in Clients : WarmUpFails(c) => cl'[c].ret.err # ""]_vars

\* the step in which a Send that client c called from outside returns after
\* its store calls
SendReturns(c) ==
    cl[c].op.name = "Send" /\ InSend(cl[c]) /\ cl'[c].pc = "idle"
\* at that step, the task of the Send was appended to the worker's queue: it
\* is on the queue, or the worker has taken it and written its result
Appended(c) ==
    \/ \E i \in 1..Len(queue[cl[c].task.WorkerName]) :
          queue[cl[c].task.WorkerName][i].TaskID = cl[c].task.TaskID
    \/ \E v \in Values : <<cl[c].task.ResultKey, v>> \in results

\* C30: the polling Send and the blocking-pop Send return the same outcome
\* class for the same store failures: in both, a Send whose task the store
\* did not append returns a transport error, a Send returns a timeout only
\* when its task is on the queue or answered, and a Send that returns a
\* result has taken it from its result key.
C30_SameOutcome ==
    [][\A c \in Clients :
         SendReturns(c) =>
           /\ ~Appended(c) => cl'[c].ret.err = "Redis"
           /\ cl'[c].ret.err = "Timeout" => Appended(c)
           /\ cl'[c].ret.err = "" => \E v \in Values : Takes(c, v) /\ cl'[c].ret.val = v]_vars

\* the sleeps before the retries: 0.2 s, 0.4 s, 0.8 s, in units of 50 ms
Backoffs == <<4, 8, 16>>
\* client c stays in the retry loop of the same store call and starts one
\* more attempt
Retry(c) ==
    /\ cl'[c].pc = cl[c].pc
    /\ cl'[c].task = cl[c].task
    /\ cl'[c].attempt = cl[c].attempt + 1

\* C31: the k-th retry of a store call comes 0.2 * 2^(k-1) s after the
\* failure before it (k = 1, 2, 3; a failed RPUSH takes no time, a BLPOP may
\* have waited before it failed); the first attempt of the RPUSH of a Send
\* starts at once and nothing is slept after the last failed attempt, so a
\* Send is in its RPUSH for 1.4 s at most.
C31_Backoff ==
    /\ [][\A c \in LClients :
            Retry(c) =>
              /\ cl'[c].attempt \in 1..Len(Backoffs)
              /\ IF cl[c].pc = "rpush"
                 THEN watch'[c].elapsed = watch[c].elapsed + Backoffs[cl'[c].attempt]
                 ELSE watch'[c].elapsed >= watch[c].elapsed + Backoffs[cl'[c].attempt]]_vars
    /\ [][\A c \in LClients :
            (cl[c].pc = "rpush" /\ cl'[c].pc # "rpush" /\ cl'[c].lastErr = "Redis") =>
              /\ cl[c].attempt = Len(Backoffs)
              /\ watch'[c].elapsed = watch[c].elapsed]_vars
    /\ [](\A c \in LClients :
            (cl[c].op.name = "Send" /\ cl[c].pc = "rpush") =>
              /\ cl[c].attempt = 0 => watch[c].elapsed = 0
              /\ watch[c].elapsed <= BackoffCycle)

\* reached: a Send has returned the error of its RPUSH after four failed
\* attempts and 1.4 s
C31_Witness ==
    \E c \in LClients :
      /\ Returned(c, "Send")
      /\ cl[c].ret = Err("Redis")
      /\ watch[c].appendFails = 4
      /\ watch[c].elapsed = BackoffCycle

\* the step in which an Acquire of client c binds a new Session
Binds(c) ==
    /\ Starts(c, "Acquire")
    /\ cl'[c].Session # NoSession
    /\ ~(cl'[c].pc = "idle" /\ cl'[c].ret.err # "")

\* C32: every Acquire of a Client that binds a Session starts it with
\* InitSent false, whatever an earlier session left, and when a profile,
\* video or record was requested the first task of the Session, the warm-up
\* command, carries exactly the requested flags; no task carries a flag that
\* its Session did not request.
C32_FlagsPerSession ==
    /\ [][\A c \in LClients :
            Binds(c) =>
              /\ ~cl'[c].InitSent
              /\ Wants(cl'[c].Session) =>
                    /\ Sends(c)
                    /\ cl'[c].task.Video = cl'[c].Session.Video
                    /\ cl'[c].task.Record = cl'[c].Session.Record
                    /\ cl'[c].task.ProfileID = cl'[c].Session.ProfileID]_vars
    /\ [][\A c \in LClients :
            Sends(c) =>
              /\ cl'[c].task.Video => cl'[c].Session.Video
              /\ cl'[c].task.Record => cl'[c].Session.Record
              /\ cl'[c].task.ProfileID \in {"", cl'[c].Session.ProfileID}]_vars

\* reached: a second Acquire on a client whose Release had received its
\* answer (InitSent was true) has built a warm-up task with the flags
C32_Witness ==
    \E c \in LClients :
      /\ cl[c].op.name = "Acquire"
      /\ cl[c].pc = "rpush"
      /\ cl[c].SessionData \in {"ok", "fail"}
      /\ cl[c].nTasks >= 2
      /\ cl[c].task.Video /\ cl[c].task.ProfileID = "p1"

\* the step moves instance b of pair p out of the free set and changes no
\* other free set
Pops(p, b) == b \in free[p] /\ free' = [free EXCEPT ![p] = @ \ {b}]
\* the step adds instance b to the busy set of pair p and changes no other
\* busy set
Adds(p, b) == busy' = [busy EXCEPT ![p] = @ \cup {b}]
\* the step in which an Acquire of client c sets the Session
SetsSession(c) ==
    /\ cl[c].op.name = "Acquire" \/ Starts(c, "Acquire")
    /\ cl'[c].op.name = "Acquire"
    /\ cl'[c].Session # cl[c].Session

\* C33: an Acquire(T) that succeeds has moved exactly one instance: when it
\* sets the Session, the instance of the Session is out of the free set for T
\* of the Session's worker and in the busy set for T of that worker; each of
\* its steps pops at most that instance, from that free set, adds nothing
\* else to a busy set, and leaves the worker pool and every other set alone.
C33_ExactlyOne ==
    [][\A c \in Clients :
         /\ SetsSession(c) =>
               LET x == cl'[c].Session
                   p == <<x.WorkerName, x.BrowserType>> IN
               /\ x.BrowserType = cl'[c].op.type
               /\ Home(x.BrowserID) = p
               /\ x.BrowserID \notin free'[p]
               /\ x.BrowserID \in busy'[p]
               /\ IF c \in LClients THEN Pops(p, x.BrowserID) ELSE free' = free
               /\ Adds(p, x.BrowserID)
         /\ (cl'[c] # cl[c] /\ cl'[c].op.name = "Acquire" /\ ~SetsSession(c)) =>
               /\ busy' = busy
               /\ \/ free' = free
                  \/ \E p \in Pairs, b \in Instances :
                       /\ Pops(p, b) /\ p[2] = cl'[c].op.type
                       /\ cl[c].pc = "spop" /\ cl'[c].pc = "sadd" /\ cl'[c].bid = b
         /\ (cl'[c] # cl[c] /\ cl'[c].op.name = "Acquire") => pool' = pool]_vars

\* a step of an Acquire of client c that fails or goes on looking for a free
\* instance
FailingStep(c) ==
    /\ cl'[c] # cl[c]
    /\ cl[c].op.name = "Acquire" \/ Starts(c, "Acquire")
    /\ cl'[c].op.name = "Acquire"
    /\ \/ cl'[c].pc = "spop"
       \/ cl'[c].pc = "idle" /\ cl'[c].ret.err # ""

\* C34: an Acquire that fails leaves Session, InitSent, SessionData and
\* VideoURL of the client as they were and moves no instance: none of its
\* steps changes one of them or a free or busy set.
C34_FailedAcquire ==
    [][\A c \in Clients :
         FailingStep(c) =>
           /\ cl'[c].Session = cl[c].Session
           /\ cl'[c].InitSent = cl[c].InitSent
           /\ cl'[c].SessionData = cl[c].SessionData
           /\ cl'[c].VideoURL = cl[c].VideoURL
           /\ free' = free /\ busy' = busy]_vars

\* C35: the instance of a non-empty Session belongs to the Session's worker
\* and browser type, it is out of that pair's free set and in its busy set
\* as long as no worker has moved it since the client claimed it, and every
\* task the client builds or appends names the Session's worker and instance
\* and is appended to that worker's queue.
C35_SessionBinding ==
    /\ [](\A c \in Clients :
            cl[c].Session # NoSession =>
              LET x == cl[c].Session
                  p == <<x.WorkerName, x.BrowserType>> IN
              /\ Home(x.BrowserID) = p
              /\ c \in claimed[x.BrowserID] =>
                    x.BrowserID \in busy[p] /\ x.BrowserID \notin free[p])
    /\ [][\A c \in Clients :
            /\ Sends(c) =>
                  /\ cl'[c].task.WorkerName = cl'[c].Session.WorkerName
                  /\ cl'[c].task.BrowserID = cl'[c].Session.BrowserID
            /\ \A w \in Workers :
                  (cl'[c] # cl[c] /\ queue'[w] # queue[w]) =>
                    /\ w = cl[c].Session.WorkerName
                    /\ queue'[w] = Append(queue[w], cl[c].task)
                    /\ cl[c].task.BrowserID = cl[c].Session.BrowserID]_vars

\* client c is in the Acquired state: its Session is set and it is not
\* inside a Release
AcquiredState(c) ==
    /\ cl[c].Session # NoSession
    /\ ~(cl[c].op.name \in {"Release", "Close"} /\ cl[c].pc # "idle")

\* C36: no two clients in the Acquired state are bound to the same instance,
\* and no task of a session is appended to the worker's queue after the
\* release_browser task of that session: when a client appends a task, the
\* queue holds no release_browser task of this client for the task's
\* instance, and a release_browser task that is appended has not been
\* answered already.
C36_Exclusive ==
    /\ [](\A c, d \in Clients :
            (c # d /\ AcquiredState(c) /\ AcquiredState(d)) =>
              cl[c].Session.BrowserID # cl[d].Session.BrowserID)
    /\ [][\A c \in Clients : \A w \in Workers :
            (cl'[c] # cl[c] /\ queue'[w] # queue[w]) =>
              LET t == Last(queue'[w]) IN
              /\ \A i \in 1..Len(queue[w]) :
                    ~(/\ queue[w][i].Action = "release_browser"
                      /\ queue[w][i].BrowserID = t.BrowserID
                      /\ queue[w][i].TaskID[1] = c)
              /\ t.Action = "release_browser" =>
                    \A v \in Values : <<t.ResultKey, v>> \notin results]_vars

\* a release_browser task of client c for instance b is on the queue of the
\* worker of b
ReleaseQueued(c, b) ==
    \E i \in 1..Len(queue[Home(b)[1]]) :
      LET t == queue[Home(b)[1]][i] IN
      t.Action = "release_browser" /\ t.BrowserID = b /\ t.TaskID[1] = c

\* C37: every instance that a client has claimed and that no worker has
\* returned to free since is named by the client's Session or has a
\* release_browser task of the client on its worker's queue; and when a
\* Release returns, the release_browser task of its Session is on the queue
\* or has been taken by the worker.
C37_NoLeak ==
    /\ [](\A b \in Instances : \A c \in claimed[b] :
            \/ cl[c].Session # NoSession /\ cl[c].Session.BrowserID = b
            \/ ReleaseQueued(c, b))
    /\ [][\A c \in Clients :
            (/\ cl[c].op.name \in {"Release", "Close"} /\ cl[c].pc # "idle"
             /\ cl'[c].pc = "idle") =>
               /\ cl'[c].Session = NoSession
               /\ cl[c].task.Action = "release_browser"
               /\ Appended(c)]_vars

\* the step in which an assertion method of client c returns, from its Send
\* or at once
AssertEnds(c) ==
    cl'[c] # cl[c] /\ cl'[c].op.name = "Assert" /\ cl'[c].pc = "idle"

\* C38: an assertion method returns no error only when its Send has read a
\* response of the worker and the status of the response is not "fail"; on
\* a missing Session, a store error, a timeout or an unreadable response it
\* returns an error.
C38_AssertReportsSend ==
    [][\A c \in Clients :
         (AssertEnds(c) /\ cl'[c].ret.err = "") =>
           \E v \in Values :
             /\ cl[c].pc # "idle"
             /\ Takes(c, v)
             /\ Decode(Body(v)).err = ""
             /\ StatusOf(v) # "fail"]_vars

\* the session of client c has no video to stop (Client: Video; BrowserClient:
\* Record)
NoVideo(c) == IF c \in LClients THEN ~cl[c].Session.Video ELSE ~cl[c].Session.Record
\* the step in which the Release of a Session of client c returns
ReleaseReturns(c) ==
    cl[c].op.name = "Release" /\ cl[c].pc # "idle" /\ cl'[c].pc = "idle"
\* the Send of the stop command at cont returns to the Release of client c
\* without the URL under key
NoURL(c, conts, key) ==
    /\ cl[c].op.name = "Release" /\ cl[c].cont \in conts /\ Sends(c)
    /\ ~\E v \in Values : Takes(c, v) /\ URLIn(v, key).ok

\* the program state of InitAfterSession is reached from Init
AfterSessionReached ==
    /\ cl["c1"] = Released("c1")
    /\ pool = Workers /\ results = {}
    /\ \A w \in Workers : queue[w] = <<>>
    /\ \A p \in Pairs : busy[p] = {} /\ free[p] = HomeSet(p)
    /\ \A b \in Instances : claimed[b] = {}

\* C39: after a Release, VideoURL and RecordURL hold no URL of an earlier
\* session: a Release of a session without video (record) returns with an
\* empty VideoURL (RecordURL), and a stop command that brings no URL leaves
\* the field empty.
C39_NoStaleURL ==
    [][\A c \in Clients :
         /\ (ReleaseReturns(c) /\ NoVideo(c)) => cl'[c].VideoURL = ""
         /\ (ReleaseReturns(c) /\ c \in LClients /\ ~cl[c].Session.Record) =>
               cl'[c].RecordURL = ""
         /\ NoURL(c, {"stop_video", "stop_recording"}, "video_url") =>
               cl'[c].VideoURL = ""
         /\ NoURL(c, {"stop_record"}, "record_url") => cl'[c].RecordURL = ""]_vars

\* C40: every call that has started returns to its caller, whatever the
\* workers do and whichever store calls fail, and no store call is made more
\* than 1 + maxAttempts times.
C40_Returns ==
    /\ \A c \in Running : (cl[c].pc # "idle") ~> (cl[c].pc = "idle")
    /\ [](\A c \in Running : cl[c].attempt <= maxAttempts)

\* reached: a Send has returned on its timeout, after a store call had
\* failed, with its task still on the queue of a worker that did not take it
C40_Witness ==
    \E c \in Clients :
      /\ Returned(c, "Send")
      /\ cl[c].ret = Err("Timeout")
      /\ faults >= 1
      /\ \E w \in Workers : \E i \in DOMAIN queue[w] :
            queue[w][i].TaskID = <<c, cl[c].nTasks>>

====
